---- MODULE Spec2Model ----
(***************************************************************************)
(* Model of enterprise_gateway/services/processproxies/docker_swarm.py:    *)
(* DockerProcessProxy (single-host containers) and DockerSwarmProcessProxy *)
(* (swarm services and their tasks), one proxy polling and terminating one *)
(* kernel against a docker backend that changes underneath it.             *)
(*                                                                         *)
(* Python strings are sequences of one-character strings, so lower() and   *)
(* split("/") are computed character by character.  Python None and False  *)
(* are values that are no string.                                          *)
(***************************************************************************)
EXTENDS Integers, Sequences, FiniteSets

VARIABLES mode, backend, container_name, assigned_ip, assigned_host, ret, located,
          recorded

vars == <<mode, backend, container_name, assigned_ip, assigned_host, ret, located,
          recorded>>

-----------------------------------------------------------------------------
(* Bounds of the model. *)

\* most runtime objects (containers, services) carrying the kernel's label
MaxObjs == 2

\* most tasks scheduled for the kernel's services at a time
MaxTasks == 2

-----------------------------------------------------------------------------
(* Python values. *)

None == <<"None">>

PyFalse == <<"False">>

EmptyStr == <<>>

\* Python truthiness of an optional string: None and "" are falsy
Truthy(x) == x # None /\ x # EmptyStr

UpperChars == <<"A","B","C","D","E","F","G","H","I","J","K","L","M",
                "N","O","P","Q","R","S","T","U","V","W","X","Y","Z">>

LowerChars == <<"a","b","c","d","e","f","g","h","i","j","k","l","m",
                "n","o","p","q","r","s","t","u","v","w","x","y","z">>

LowerChar(c) ==
    IF \E i \in 1..Len(UpperChars) : UpperChars[i] = c
    THEN LowerChars[CHOOSE i \in 1..Len(UpperChars) : UpperChars[i] = c]
    ELSE c

\* str.lower()
Lower(s) == [i \in 1..Len(s) |-> LowerChar(s[i])]

SplitFirst_Whole(s, sep) == s

\* s.split(sep)[0]: the part before the first sep, the whole of s without one
SplitFirst(s, sep) ==
    LET hits == {i \in 1..Len(s) : s[i] = sep}
    IN  IF hits = {} THEN s
        ELSE SubSeq(s, 1, (CHOOSE i \in hits : \A j \in hits : i <= j) - 1)

running == <<"r","u","n","n","i","n","g">>

-----------------------------------------------------------------------------
(* Module-level configuration and the proxy's identity. *)

\* EG_DOCKER_NETWORK, default "bridge"
docker_network == "bridge"

\* self.kernel_id, the value of the kernel_id label
kernel_id == "abc"

-----------------------------------------------------------------------------
(* The docker backend: what client.containers.list / client.services.list  *)
(* and service.tasks can return for the kernel's label.                    *)

Digits == <<"1","2","3","4","5","6","7","8","9">>

\* names of the runtime objects; docker keeps them unique
Name(i) == <<"k", Digits[i]>>

Names == {Name(i) : i \in 1..MaxObjs}

DefaultIP == <<"7",".","2">>

NetIP(n) == IF n = docker_network THEN <<"7",".","3">> ELSE <<"7",".","4">>

\* attrs["NetworkSettings"]["Networks"]: network name -> IPAddress
NetworkMap(S) == [n \in S |-> NetIP(n)]

NetworkSets == {{}, {docker_network}, {"other"}}

ContainerStatuses ==
    { EmptyStr,
      <<"R","u","n","n","i","n","g">>,
      <<"E","X","I","T","E","D">> }

Containers ==
    { [name |-> nm, status |-> st, IPAddress |-> DefaultIP, Networks |-> NetworkMap(S)] :
        nm \in Names, st \in ContainerStatuses, S \in NetworkSets }

Cidr(d, p) == <<"7", ".", d, "/", p>>

NoTaskStatus == <<>>

\* the tasks the orchestrator may schedule for a service of the kernel
Tasks ==
    { [ID |-> "t1", DesiredState |-> "running",
       Status |-> [State |-> <<"R","u","n","n","i","n","g">>],
       NetworksAttachments |-> << [Addresses |-> <<Cidr("5", "8"), Cidr("6", "8")>>],
                                  [Addresses |-> <<Cidr("7", "8")>>] >>],
      [ID |-> "t2", DesiredState |-> "running",
       Status |-> [State |-> <<"R","U","N","N","I","N","G">>],
       NetworksAttachments |-> << >>],
      [ID |-> "t3", DesiredState |-> "shutdown",
       Status |-> [State |-> <<"S","h","u","t","d","o","w","n">>],
       NetworksAttachments |-> << [Addresses |-> <<Cidr("5", "8")>>] >>],
      [ID |-> "t4", DesiredState |-> "running",
       Status |-> [State |-> <<"r","u","n","n","i","n","g">>],
       NetworksAttachments |-> << [Addresses |-> <<Cidr("9", "8")>>] >>],
      [ID |-> "t5", DesiredState |-> "running",
       Status |-> [State |-> <<"P","e","n","d","i","n","g">>],
       NetworksAttachments |-> << >>],
      [ID |-> "t6", DesiredState |-> "running",
       Status |-> NoTaskStatus,
       NetworksAttachments |-> << >>] }

\* every task scheduled for some service of the backend
AllTasks(services) == UNION {s.tasks : s \in services}

-----------------------------------------------------------------------------
(* Results of a call: the proxy's fields after it and what it returned or  *)
(* raised.                                                                 *)

Returned(self, v) ==
    [self |-> self, raised |-> FALSE, val |-> v,
     errType |-> "", errId |-> "", errCount |-> 0, errName |-> None]

Raised(self, type, id, count, name) ==
    [self |-> self, raised |-> TRUE, val |-> None,
     errType |-> type, errId |-> id, errCount |-> count, errName |-> name]

NoObj == <<>>

Located(self, obj) ==
    [self |-> self, raised |-> FALSE, found |-> TRUE, obj |-> obj,
     errType |-> "", errId |-> "", errCount |-> 0, errName |-> None]

NotLocated(self) ==
    [self |-> self, raised |-> FALSE, found |-> FALSE, obj |-> NoObj,
     errType |-> "", errId |-> "", errCount |-> 0, errName |-> None]

LookupRaised(self, count, name) ==
    [self |-> self, raised |-> TRUE, found |-> FALSE, obj |-> NoObj,
     errType |-> "RuntimeError", errId |-> kernel_id, errCount |-> count,
     errName |-> name]

\* seq[0] of a list holding one element
Only(S) == CHOOSE x \in S : TRUE

-----------------------------------------------------------------------------
(* DockerSwarmProcessProxy. *)

MoreThanOne_OffByOne(num) == num > 2

\* elif num_services > 1 / num_tasks > 1 / num_containers > 1
MoreThanOne(num) == num > 1

NoStatus_None == None

\* task_state = "" / container_status = "": the status of a call that finds nothing
NoStatus == EmptyStr

OptimisticResult_Pessimistic == FALSE

\* result = True  # We'll be optimistic
OptimisticResult == TRUE

RemovalFailed_Any(err) == TRUE

\* if not isinstance(err, NotFound): result = False
RemovalFailed(err) == err # "NotFound"

\* result after the try block around remove()
RemovalResult(outcome) ==
    IF outcome # "ok" /\ RemovalFailed(outcome) THEN FALSE ELSE OptimisticResult

_get_service(self, services) ==
    LET num_services == Cardinality(services)
    IN  IF num_services = 1
        THEN Located([self EXCEPT !.container_name = Only(services).name], Only(services))
        ELSE IF MoreThanOne(num_services)
             THEN LookupRaised(self, num_services, None)
             ELSE NotLocated(self)

ServiceTasks_NoFilter(service) == service.tasks

ServiceTasks_AnyIfNoneRunning(service) ==
    IF \E t \in service.tasks : t.DesiredState = "running"
    THEN {t \in service.tasks : t.DesiredState = "running"}
    ELSE service.tasks

\* service.tasks(filters={"desired-state": "running"})
ServiceTasks(service) == {t \in service.tasks : t.DesiredState = "running"}

\* what service.tasks() does when _get_task calls it: it answers the tasks
\* the service holds then ("tasks"); for a service that was removed after
\* services.list() returned it, the daemon answers an empty list ("empty") or
\* the call raises NotFound ("NotFound")
TasksAnswers == {"tasks", "empty", "NotFound"}

TasksRaised(self) ==
    [self |-> self, raised |-> TRUE, found |-> FALSE, obj |-> NoObj,
     errType |-> "NotFound", errId |-> "", errCount |-> 0, errName |-> None]

TasksAnswered(service, answer) ==
    IF answer = "empty" THEN {} ELSE ServiceTasks(service)

_get_task(self, services, answer) ==
    LET svc == _get_service(self, services)
    IN  IF svc.raised \/ ~svc.found THEN svc
        ELSE IF answer = "NotFound" THEN TasksRaised(svc.self)
        ELSE LET tasks == TasksAnswered(svc.obj, answer)
                 num_tasks == Cardinality(tasks)
             IN  IF num_tasks = 1 THEN Located(svc.self, Only(tasks))
                 ELSE IF MoreThanOne(num_tasks)
                      THEN LookupRaised(svc.self, num_tasks, svc.obj.name)
                      ELSE NotLocated(svc.self)

\* if not self.assigned_host and task_state == "running"
SwarmCaptureGuard(self, task_state) ==
    ~Truthy(self.assigned_host) /\ task_state = running

\* the body of the guard: first address of the first attachment, before the "/"
SwarmCapture(self, task) ==
    LET networks_attachments == task.NetworksAttachments
    IN  IF Len(networks_attachments) > 0
        THEN IF Len(networks_attachments[1].Addresses) = 0
             THEN Raised(self, "IndexError", "", 0, None)
             ELSE Returned([self EXCEPT
                              !.assigned_ip =
                                  SplitFirst(networks_attachments[1].Addresses[1], "/"),
                              !.assigned_host = self.container_name],
                           running)
        ELSE Returned(self, running)

Swarm_get_container_status(self, services, answer) ==
    LET lk == _get_task(self, services, answer)
    IN  IF lk.raised THEN Raised(lk.self, lk.errType, lk.errId, lk.errCount, lk.errName)
        ELSE IF ~lk.found THEN Returned(lk.self, NoStatus)
        ELSE IF DOMAIN lk.obj.Status = {} THEN Returned(lk.self, NoStatus)
        ELSE LET task_state == Lower(lk.obj.Status.State)
             IN  IF SwarmCaptureGuard(lk.self, task_state)
                 THEN SwarmCapture(lk.self, lk.obj)
                 ELSE Returned(lk.self, task_state)

AfterRemoval_KeepName(self, result) ==
    Returned(self, IF result THEN None ELSE PyFalse)

AfterRemoval_AlwaysClear(self, result) ==
    Returned([self EXCEPT !.container_name = None], IF result THEN None ELSE PyFalse)

\* if result: ... container_name = None; result = None   else: ... return result
AfterRemoval(self, result) ==
    IF result
    THEN Returned([self EXCEPT !.container_name = None], None)
    ELSE Returned(self, PyFalse)

Swarm_terminate_ViaTask(self, services, outcome) ==
    LET lk == _get_task(self, services, "tasks")
    IN  IF lk.raised THEN Raised(lk.self, lk.errType, lk.errId, lk.errCount, lk.errName)
        ELSE IF Cardinality(services) = 1
             THEN AfterRemoval(lk.self, RemovalResult(outcome))
             ELSE AfterRemoval(lk.self, OptimisticResult)

\* outcome: what service.remove() did: "ok", or the exception it raised
Swarm_terminate_container_resources(self, services, outcome) ==
    LET lk == _get_service(self, services)
    IN  IF lk.raised THEN Raised(lk.self, lk.errType, lk.errId, lk.errCount, lk.errName)
        ELSE IF lk.found
             THEN AfterRemoval(lk.self, RemovalResult(outcome))
             ELSE AfterRemoval(lk.self, OptimisticResult)

-----------------------------------------------------------------------------
(* DockerProcessProxy. *)

_get_container_First(self, containers) ==
    IF Cardinality(containers) >= 1 THEN Located(self, Only(containers))
    ELSE NotLocated(self)

_get_container(self, containers) ==
    LET num_containers == Cardinality(containers)
    IN  IF num_containers = 1 THEN Located(self, Only(containers))
        ELSE IF MoreThanOne(num_containers)
             THEN LookupRaised(self, num_containers, None)
             ELSE NotLocated(self)

DockerCaptureGuard_NoGuard(self, container_status) == container_status = running

\* if container_status == "running" and not self.assigned_host
DockerCaptureGuard(self, container_status) ==
    container_status = running /\ ~Truthy(self.assigned_host)

\* the body of the guard.  networks.get(docker_network) is None for a network
\* the map lacks, and None.get raises AttributeError after assigned_ip was set.
DockerCapture(self, container) ==
    LET fallback == [self EXCEPT !.assigned_ip = container.IPAddress]
        networks == container.Networks
    IN  IF Cardinality(DOMAIN networks) > 0
        THEN IF docker_network \in DOMAIN networks
             THEN Returned([fallback EXCEPT !.assigned_ip = networks[docker_network],
                                            !.assigned_host = fallback.container_name],
                           running)
             ELSE Raised(fallback, "AttributeError", "", 0, None)
        ELSE Returned([fallback EXCEPT !.assigned_host = fallback.container_name],
                      running)

Docker_get_container_status(self, containers) ==
    LET lk == _get_container(self, containers)
    IN  IF lk.raised THEN Raised(lk.self, lk.errType, lk.errId, lk.errCount, lk.errName)
        ELSE IF ~lk.found THEN Returned(lk.self, NoStatus)
        ELSE LET named == [lk.self EXCEPT !.container_name = lk.obj.name]
             IN  IF ~Truthy(lk.obj.status) THEN Returned(named, NoStatus)
                 ELSE LET container_status == Lower(lk.obj.status)
                      IN  IF DockerCaptureGuard(named, container_status)
                          THEN DockerCapture(named, lk.obj)
                          ELSE Returned(named, container_status)

\* outcome: what container.remove(force=True) did: "ok", or the exception it raised
Docker_terminate_container_resources(self, containers, outcome) ==
    LET lk == _get_container(self, containers)
    IN  IF lk.raised THEN Raised(lk.self, lk.errType, lk.errId, lk.errCount, lk.errName)
        ELSE IF lk.found
             THEN AfterRemoval(lk.self, RemovalResult(outcome))
             ELSE AfterRemoval(lk.self, OptimisticResult)

-----------------------------------------------------------------------------
(* The state machine: one proxy, the backend, and the last call's result.  *)

Self == [container_name |-> container_name, assigned_ip |-> assigned_ip,
         assigned_host |-> assigned_host]

\* the record of a call: what it returned or raised, whether it logged its
\* debug line, and what remove() did in it
\* (nameAtRemove: container_name when remove() was called; raced: someone else
\* removed the located object while the call was running; prev: what the call
\* right before this one did, when this one is a terminate call)
Call(op, r, logged, remove, nameAtRemove, raced, prev) ==
    [op |-> op, raised |-> r.raised, val |-> r.val, errType |-> r.errType,
     errId |-> r.errId, errCount |-> r.errCount, errName |-> r.errName,
     logged |-> logged, remove |-> remove, nameAtRemove |-> nameAtRemove,
     raced |-> raced, prevRemove |-> prev.remove, prevTaskError |-> prev.taskError]

NoPrev == [remove |-> "-", taskError |-> FALSE]

NoCall(op) == Call(op, Returned(Self, None), FALSE, "none", None, FALSE, NoPrev)

\* the call right before: what its remove() did, for a terminate call; whether
\* it raised for the tasks of a service, for a poll
Prev ==
    [remove |-> IF ret.op = "terminate" THEN ret.remove ELSE "-",
     taskError |-> ret.op = "query" /\ ret.raised /\ ret.errName # None]

\* the values a caller passes as iteration, an optional int: << >> for None,
\* <<n>> for the number n
Iterations == {<< >>, <<0>>, <<1>>, <<2>>}

\* if iteration: self.log.debug(...)
LogsPoll(iteration) == iteration # << >> /\ iteration[1] # 0

\* (a quiet poll that reports no status)
LogPoll_QuietIsBlind(r, iteration) ==
    [result |-> IF LogsPoll(iteration) THEN r ELSE [r EXCEPT !.val = EmptyStr],
     logged |-> ~r.raised /\ LogsPoll(iteration)]

\* the end of get_container_status: the debug line is logged for a truthy
\* iteration, and the status computed before it is returned
LogPoll(r, iteration) ==
    [result |-> r, logged |-> ~r.raised /\ LogsPoll(iteration)]

\* what the proxy's lookups and removals have come to: "never" while no lookup
\* has located an object, "terminated" when the last call that located or
\* removed the object was a terminate call that returned None, else "located"
LocatedAfterQuery(objs) ==
    IF Cardinality(objs) = 1 THEN "located" ELSE located

LocatedAfterTerminate(objs, r) ==
    IF Cardinality(objs) # 1 THEN located
    ELSE IF ~r.raised /\ r.val = None THEN "terminated"
    ELSE "located"

\* whether a lookup that stores the object's name has located an object since
\* construction or since the last terminate call that returned None:
\* get_container_status stores it in both classes, terminate_container_resources
\* only through _get_service
RecordedAfterQuery(objs) ==
    IF Cardinality(objs) = 1 THEN TRUE ELSE recorded

RecordedAfterTerminate(objs, r) ==
    IF ~r.raised /\ r.val = None THEN FALSE
    ELSE IF mode = "swarm" /\ Cardinality(objs) = 1 THEN TRUE
    ELSE recorded

SetSelf(self) ==
    /\ container_name' = self.container_name
    /\ assigned_ip' = self.assigned_ip
    /\ assigned_host' = self.assigned_host

Without(objs, obj) == {o \in objs : o.name # obj.name}

\* obj.remove() against the objects the backend holds at the time of the call
RemoveOutcome(objs, obj, fault) ==
    IF fault THEN "APIError"
    ELSE IF \A o \in objs : o.name # obj.name THEN "NotFound"
    ELSE "ok"

Init ==
    /\ mode \in {"docker", "swarm"}
    /\ backend = {}
    /\ container_name = None
    /\ assigned_ip = None
    /\ assigned_host = None
    /\ ret = NoCall("init")
    /\ located = "never"
    /\ recorded = FALSE

(* The caller's operations. *)

DockerQuery ==
    /\ mode = "docker"
    /\ \E iteration \in Iterations :
         LET p == LogPoll(Docker_get_container_status(Self, backend), iteration)
         IN  /\ SetSelf(p.result.self)
             /\ ret' = Call("query", p.result, p.logged, "none", None, FALSE, NoPrev)
    /\ located' = LocatedAfterQuery(backend)
    /\ recorded' = RecordedAfterQuery(backend)
    /\ UNCHANGED <<mode, backend>>

\* answer: what service.tasks() does; the service can be removed by someone
\* else between services.list() and service.tasks()
SwarmQuery ==
    /\ mode = "swarm"
    /\ \E iteration \in Iterations, answer \in TasksAnswers :
         LET lk == _get_service(Self, backend)
             raced == answer # "tasks"
             p == LogPoll(Swarm_get_container_status(Self, backend, answer), iteration)
         IN  /\ raced => lk.found
             /\ SetSelf(p.result.self)
             /\ backend' = IF raced THEN Without(backend, lk.obj) ELSE backend
             /\ ret' = Call("query", p.result, p.logged, "none", None, raced, NoPrev)
    /\ located' = LocatedAfterQuery(backend)
    /\ recorded' = RecordedAfterQuery(backend)
    /\ UNCHANGED mode

\* raced: someone else removes the object between the lookup and remove();
\* fault: the backend fails the remove() call
DockerTerminate ==
    /\ mode = "docker"
    /\ \E raced \in BOOLEAN, fault \in BOOLEAN :
         LET lk == _get_container(Self, backend)
             atCall == IF lk.found /\ raced THEN Without(backend, lk.obj) ELSE backend
             outcome == IF lk.found THEN RemoveOutcome(atCall, lk.obj, fault) ELSE "none"
             r == Docker_terminate_container_resources(Self, backend, outcome)
         IN  /\ SetSelf(r.self)
             /\ backend' = IF outcome = "ok" THEN Without(atCall, lk.obj) ELSE atCall
             /\ ret' = Call("terminate", r, FALSE, outcome,
                            IF lk.found THEN lk.self.container_name ELSE None,
                            lk.found /\ raced, Prev)
             /\ located' = LocatedAfterTerminate(backend, r)
             /\ recorded' = RecordedAfterTerminate(backend, r)
    /\ UNCHANGED mode

SwarmTerminate ==
    /\ mode = "swarm"
    /\ \E raced \in BOOLEAN, fault \in BOOLEAN :
         LET lk == _get_service(Self, backend)
             atCall == IF lk.found /\ raced THEN Without(backend, lk.obj) ELSE backend
             outcome == IF lk.found THEN RemoveOutcome(atCall, lk.obj, fault) ELSE "none"
             r == Swarm_terminate_container_resources(Self, backend, outcome)
         IN  /\ SetSelf(r.self)
             /\ backend' = IF outcome = "ok" THEN Without(atCall, lk.obj) ELSE atCall
             /\ ret' = Call("terminate", r, FALSE, outcome,
                            IF lk.found THEN lk.self.container_name ELSE None,
                            lk.found /\ raced, Prev)
             /\ located' = LocatedAfterTerminate(backend, r)
             /\ recorded' = RecordedAfterTerminate(backend, r)
    /\ UNCHANGED mode

(* The backend changing underneath the proxy. *)

EnvStep ==
    /\ ret' = NoCall("env")
    /\ UNCHANGED <<mode, container_name, assigned_ip, assigned_host, located, recorded>>

EnvRunContainer ==
    /\ mode = "docker"
    /\ Cardinality(backend) < MaxObjs
    /\ \E c \in Containers :
         /\ \A o \in backend : o.name # c.name
         /\ backend' = backend \cup {c}
    /\ EnvStep

EnvRemoveContainer ==
    /\ mode = "docker"
    /\ \E c \in backend : backend' = backend \ {c}
    /\ EnvStep

EnvContainerStatus ==
    /\ mode = "docker"
    /\ \E c \in backend, st \in ContainerStatuses :
         /\ st # c.status
         /\ backend' = (backend \ {c}) \cup {[c EXCEPT !.status = st]}
    /\ EnvStep

EnvContainerNetworks ==
    /\ mode = "docker"
    /\ \E c \in backend, S \in NetworkSets :
         /\ S # DOMAIN c.Networks
         /\ backend' = (backend \ {c}) \cup {[c EXCEPT !.Networks = NetworkMap(S)]}
    /\ EnvStep

EnvCreateService ==
    /\ mode = "swarm"
    /\ Cardinality(backend) < MaxObjs
    /\ \E nm \in Names :
         /\ \A o \in backend : o.name # nm
         /\ backend' = backend \cup {[name |-> nm, tasks |-> {}]}
    /\ EnvStep

EnvRemoveService ==
    /\ mode = "swarm"
    /\ \E s \in backend : backend' = backend \ {s}
    /\ EnvStep

EnvStartTask ==
    /\ mode = "swarm"
    /\ Cardinality(AllTasks(backend)) < MaxTasks
    /\ \E s \in backend, t \in Tasks :
         /\ \A u \in AllTasks(backend) : u.ID # t.ID
         /\ backend' = (backend \ {s}) \cup {[s EXCEPT !.tasks = @ \cup {t}]}
    /\ EnvStep

EnvStopTask ==
    /\ mode = "swarm"
    /\ \E s \in backend :
         \E t \in s.tasks :
           backend' = (backend \ {s}) \cup {[s EXCEPT !.tasks = @ \ {t}]}
    /\ EnvStep

Next ==
    \/ DockerQuery
    \/ SwarmQuery
    \/ DockerTerminate
    \/ SwarmTerminate
    \/ EnvRunContainer
    \/ EnvRemoveContainer
    \/ EnvContainerStatus
    \/ EnvContainerNetworks
    \/ EnvCreateService
    \/ EnvRemoveService
    \/ EnvStartTask
    \/ EnvStopTask

Spec == Init /\ [][Next]_vars

-----------------------------------------------------------------------------
(* Properties. *)

Present(x) == x # None

\* this step is a get_container_status call / a terminate_container_resources call
QueryStep == ret'.op = "query"

TerminateStep == ret'.op = "terminate"

AddressesUnchanged == assigned_ip' = assigned_ip /\ assigned_host' = assigned_host

\* the object the call's lookup returned stayed in the backend for the rest
\* of the call: every read of the call saw the backend it started on
Undisturbed == ~ret'.raced

\* the address a docker container reports for the proxy: the configured
\* network's, else the default one
ReportedAddress(c) ==
    IF docker_network \in DOMAIN c.Networks THEN c.Networks[docker_network]
    ELSE c.IPAddress

\* C1: once assigned_ip and assigned_host are both present, no
\* get_container_status call changes either of them, whatever address or
\* object name the backend reports at that call.
C1_WriteOnceBoth ==
    [][ (Present(assigned_ip) /\ Present(assigned_host) /\ QueryStep)
          => AddressesUnchanged ]_vars

\* a poll returned "running" for a lone container whose name and address
\* both differ from the ones the proxy holds
C1_Witness ==
    /\ mode = "docker"
    /\ ret.op = "query" /\ ~ret.raised /\ ret.val = running
    /\ Present(assigned_ip) /\ Present(assigned_host)
    /\ Cardinality(backend) = 1
    /\ Only(backend).name # assigned_host
    /\ ReportedAddress(Only(backend)) # assigned_ip

\* C2: once assigned_ip is present, no get_container_status call changes it
\* (also after a call that raised during address extraction).
C2_AddressWriteOnce ==
    [][ (Present(assigned_ip) /\ QueryStep) => assigned_ip' = assigned_ip ]_vars

\* C3: with two or more objects carrying the label, get_container_status and
\* terminate_container_resources raise an error carrying the kernel id and the
\* number of matches, remove nothing and leave the proxy's fields unchanged.
C3_AmbiguityFatal ==
    [][ ((QueryStep \/ TerminateStep) /\ Cardinality(backend) >= 2)
          => /\ ret'.raised
             /\ ret'.errType = "RuntimeError"
             /\ ret'.errId = kernel_id
             /\ ret'.errCount = Cardinality(backend)
             /\ ret'.remove = "none"
             /\ backend' = backend
             /\ AddressesUnchanged
             /\ container_name' = container_name ]_vars

\* a terminate call raised for several matches on a proxy that holds a name
C3_Witness ==
    /\ ret.op = "terminate" /\ ret.raised
    /\ Cardinality(backend) >= 2
    /\ ret.errCount = Cardinality(backend)
    /\ Present(container_name)

\* C4: with no object carrying the label, get_container_status returns ""
\* without raising and leaves assigned_ip and assigned_host as they were.
C4_NotFoundIsEmpty ==
    [][ (QueryStep /\ backend = {})
          => /\ ~ret'.raised
             /\ ret'.val = EmptyStr
             /\ AddressesUnchanged ]_vars

\* a poll of an empty backend returned "" on a proxy that holds an address
C4_Witness ==
    /\ ret.op = "query" /\ ~ret.raised /\ ret.val = EmptyStr
    /\ backend = {}
    /\ Present(assigned_ip) /\ Present(assigned_host)

\* C5: a terminate call whose remove() succeeded returns None and leaves
\* container_name None, and a terminate call made right after it returns
\* None too, without raising, with container_name still None.
C5_IdempotentTerminate ==
    /\ (ret.op = "terminate" /\ ret.remove = "ok")
         => (~ret.raised /\ ret.val = None /\ container_name = None)
    /\ (ret.op = "terminate" /\ ret.prevRemove = "ok")
         => (~ret.raised /\ ret.val = None /\ container_name = None)

\* the second of two terminate calls in a row has returned, the first
\* having removed the object
C5_Witness ==
    /\ ret.op = "terminate" /\ ret.prevRemove = "ok"
    /\ ret.remove = "none" /\ ret.val = None
    /\ container_name = None

\* C6: a terminate call that finds no object, or whose remove() raises
\* NotFound because the object was removed in between, returns None without
\* raising and leaves container_name None.
C6_ExternalRemovalIsSuccess ==
    [][ (TerminateStep /\ (backend = {} \/ ret'.remove = "NotFound"))
          => /\ ~ret'.raised
             /\ ret'.val = None
             /\ container_name' = None ]_vars

\* a terminate call lost the race: its lookup found the object, remove()
\* raised NotFound
C6_Witness ==
    /\ ret.op = "terminate" /\ ret.remove = "NotFound"
    /\ Present(ret.nameAtRemove)
    /\ ret.val = None /\ container_name = None

\* C7: a terminate call whose remove() raises another error than NotFound
\* does not raise, returns False and leaves container_name as it was when
\* remove() was called.
C7_RemovalFailureAbsorbed ==
    [][ (TerminateStep /\ ret'.remove \notin {"none", "ok", "NotFound"})
          => /\ ~ret'.raised
             /\ ret'.val = PyFalse
             /\ container_name' = ret'.nameAtRemove ]_vars

\* a terminate call returned False and the proxy still holds the name
C7_Witness ==
    /\ ret.op = "terminate" /\ ret.remove = "APIError"
    /\ ret.val = PyFalse
    /\ Present(container_name) /\ container_name = ret.nameAtRemove

\* C8: a docker poll that finds one running container while no address is
\* assigned completes normally and sets assigned_ip to the configured
\* network's address when the network map has it, else to the default address.
C8_SingleHostAddress ==
    [][ ( /\ mode = "docker" /\ QueryStep
          /\ Cardinality(backend) = 1
          /\ Lower(Only(backend).status) = running
          /\ ~Present(assigned_ip) /\ ~Present(assigned_host) )
          => /\ ~ret'.raised
             /\ assigned_ip' = ReportedAddress(Only(backend)) ]_vars

\* C9: assigned_ip is present exactly when assigned_host is, and when
\* assigned_host is set it is the located object's name (container_name).
C9_AssignedTogether ==
    [][ /\ Present(assigned_ip') <=> Present(assigned_host')
        /\ (~Present(assigned_host) /\ Present(assigned_host'))
             => assigned_host' = container_name' ]_vars

\* the one object a poll classifies, when there is exactly one and it
\* reports a non-empty status: the lone container, or the lone service's
\* lone running-desired task
OneWithStatus ==
    /\ Cardinality(backend) = 1
    /\ IF mode = "docker" THEN Only(backend).status # EmptyStr
       ELSE /\ Cardinality(ServiceTasks(Only(backend))) = 1
            /\ DOMAIN Only(ServiceTasks(Only(backend))).Status # {}
            /\ Only(ServiceTasks(Only(backend))).Status.State # EmptyStr

BackendStatus ==
    IF mode = "docker" THEN Only(backend).status
    ELSE Only(ServiceTasks(Only(backend))).Status.State

\* C10: a poll that finds exactly one object with a non-empty status returns
\* that status in lowercase.
C10_PhaseIsLowercase ==
    [][ (QueryStep /\ Undisturbed /\ OneWithStatus)
          => (~ret'.raised /\ ret'.val = Lower(BackendStatus)) ]_vars

\* C11: a get_container_status call changes assigned_ip or assigned_host only
\* if it returns "running" and assigned_ip was absent before it, and leaves
\* both alone whenever assigned_ip is already present.  (With the fields
\* absent at construction, assigned_ip is then never present before a call
\* has returned "running".)
C11_ExtractionGated ==
    [][ QueryStep
          => /\ ~AddressesUnchanged
                  => (~ret'.raised /\ ret'.val = running /\ ~Present(assigned_ip))
             /\ Present(assigned_ip) => AddressesUnchanged ]_vars

\* the tasks of a service whose desired state is running
RunningDesired(service) == {t \in service.tasks : t.DesiredState = "running"}

\* the state a task reports, lowercased; "" for a task without a status
TaskPhase(t) == IF DOMAIN t.Status = {} THEN EmptyStr ELSE Lower(t.Status.State)

\* C12: for a lone service that stays in the backend during the poll, only
\* the running-desired tasks count: with exactly
\* one of them the poll returns that task's state and does not raise, however
\* many other tasks the service has; with two or more it raises an error
\* naming the service, the kernel id and the number of running-desired tasks.
C12_TaskFiltering ==
    [][ (mode = "swarm" /\ QueryStep /\ Undisturbed /\ Cardinality(backend) = 1)
          => LET service == Only(backend)
                 n == Cardinality(RunningDesired(service))
             IN  /\ n = 1 => /\ ~ret'.raised
                             /\ ret'.val = TaskPhase(Only(RunningDesired(service)))
                 /\ n >= 2 => /\ ret'.raised
                              /\ ret'.errType = "RuntimeError"
                              /\ ret'.errName = service.name
                              /\ ret'.errId = kernel_id
                              /\ ret'.errCount = n ]_vars

\* a poll returned "running" for a service holding a shutdown-desired task
\* beside its one running-desired task
C12_Witness ==
    /\ mode = "swarm"
    /\ ret.op = "query" /\ ~ret.raised /\ ret.val = running
    /\ Cardinality(backend) = 1
    /\ Cardinality(Only(backend).tasks) = 2
    /\ Cardinality(RunningDesired(Only(backend))) = 1

\* C13: container_name is absent exactly when no lookup of the proxy has
\* located an object yet, or the last call that located or removed the object
\* was a terminate call that returned None; it is present after every call
\* whose lookup located the object and that was no successful terminate.
C13_NameTracksLookups ==
    ~Present(container_name) <=> located \in {"never", "terminated"}

\* C13, amended: container_name is present exactly when a lookup that stores
\* the name has located an object since construction or since the last
\* terminate call that returned None (one that found nothing to remove
\* included); the lookup of a single-host terminate call stores no name.
C13_NameTracksRecordingLookups ==
    Present(container_name) <=> recorded

\* a terminate call found nothing to remove and cleared the name of an object
\* that an earlier poll had located
C13_Witness ==
    /\ ret.op = "terminate" /\ ~ret.raised /\ ret.remove = "none"
    /\ located = "located"
    /\ ~recorded /\ ~Present(container_name)

\* C14: the phase of an orchestrated poll is the selected task's state: for
\* a lone service without a running-desired task, still in the backend when
\* its tasks are read, the poll returns "" and
\* changes neither assigned_ip nor assigned_host, and whenever the poll
\* returns a phase for a lone service it is "" or the lowercased state of the
\* service's one running-desired task.
C14_StatusFromTask ==
    [][ (mode = "swarm" /\ QueryStep /\ Cardinality(backend) = 1)
          => LET candidates == RunningDesired(Only(backend))
             IN  /\ (Undisturbed /\ candidates = {})
                      => (~ret'.raised /\ ret'.val = EmptyStr /\ AddressesUnchanged)
                 /\ (~ret'.raised /\ ret'.val # EmptyStr)
                      => /\ Cardinality(candidates) = 1
                         /\ ret'.val = TaskPhase(Only(candidates)) ]_vars

\* a poll returned "" for a service whose only task is not desired running
C14_Witness ==
    /\ mode = "swarm"
    /\ ret.op = "query" /\ ~ret.raised /\ ret.val = EmptyStr
    /\ Cardinality(backend) = 1
    /\ Only(backend).tasks # {}
    /\ RunningDesired(Only(backend)) = {}

\* C15: an orchestrated terminate call resolves the service and no task: for
\* a lone service it never raises, whatever tasks the service holds, it calls
\* remove() on that service, and unless remove() fails it returns None with
\* the service and all its tasks gone.
C15_TerminateOnServiceOnly ==
    [][ (mode = "swarm" /\ TerminateStep /\ Cardinality(backend) = 1)
          => /\ ~ret'.raised
             /\ ret'.remove # "none"
             /\ ret'.nameAtRemove = Only(backend).name
             /\ ret'.remove \in {"ok", "NotFound"}
                  => (ret'.val = None /\ backend' = {} /\ AllTasks(backend') = {}) ]_vars

\* a poll raised for the service's two running-desired tasks, and the
\* terminate call right after it removed the service and returned None
C15_Witness ==
    /\ mode = "swarm"
    /\ ret.op = "terminate" /\ ret.prevTaskError
    /\ ret.remove = "ok" /\ ~ret.raised /\ ret.val = None
    /\ backend = {}

\* ip is the part of address before its first "/"
IsIpOf(ip, address) ==
    \E k \in 1..Len(address) :
        /\ address[k] = "/"
        /\ \A j \in 1..(k - 1) : address[j] # "/"
        /\ ip = [j \in 1..(k - 1) |-> address[j]]

\* C16: an orchestrated poll that finds a running task with a non-empty
\* attachment list while no address is assigned sets assigned_ip to the part
\* before the "/" of the first address of the first attachment, and
\* assigned_host to the service's name.
C16_OrchestratedAddress ==
    [][ ( /\ mode = "swarm" /\ QueryStep /\ Undisturbed
          /\ Cardinality(backend) = 1
          /\ Cardinality(RunningDesired(Only(backend))) = 1
          /\ TaskPhase(Only(RunningDesired(Only(backend)))) = running
          /\ Len(Only(RunningDesired(Only(backend))).NetworksAttachments) > 0
          /\ ~Present(assigned_ip) )
          => LET task == Only(RunningDesired(Only(backend)))
             IN  /\ IsIpOf(assigned_ip', task.NetworksAttachments[1].Addresses[1])
                 /\ assigned_host' = Only(backend).name ]_vars

\* a poll took 7.5 out of 7.5/8, the first of the three addresses the task
\* has on its two attachments
C16_Witness ==
    /\ mode = "swarm"
    /\ ret.op = "query" /\ ~ret.raised /\ ret.val = running
    /\ Cardinality(backend) = 1
    /\ Cardinality(RunningDesired(Only(backend))) = 1
    /\ Len(Only(RunningDesired(Only(backend))).NetworksAttachments) = 2
    /\ assigned_ip = <<"7", ".", "5">>
    /\ assigned_host = Only(backend).name

\* C17: only terminate_container_resources changes the backend: a poll calls
\* no remove() and leaves every object as it is (an object that goes during a
\* poll is the located one, removed by someone else), and a terminate call calls remove() only when its
\* lookup returned an object, which is then the only object that can go; when
\* the lookup found none or raised, no remove() is called and nothing changes.
C17_MutationConfinedToTerminate ==
    [][ /\ QueryStep
             => /\ ret'.remove = "none"
                /\ Undisturbed => backend' = backend
                /\ ~Undisturbed => (Cardinality(backend) = 1 /\ backend' = {})
        /\ TerminateStep
             => /\ backend' \subseteq backend
                /\ Cardinality(backend) # 1
                     => (ret'.remove = "none" /\ backend' = backend)
                /\ Cardinality(backend) = 1
                     => (ret'.remove # "none" /\ backend \ backend' \subseteq {Only(backend)})
                /\ ret'.raised => (ret'.remove = "none" /\ backend' = backend) ]_vars

\* a single-host terminate call removed the container its lookup returned
C17_Witness ==
    /\ mode = "docker"
    /\ ret.op = "terminate" /\ ret.remove = "ok"
    /\ backend = {}
    /\ located = "terminated"

\* C18: no terminate call changes assigned_ip or assigned_host, and a proxy
\* that held an address when a terminate call succeeded keeps it: a later
\* poll that finds another running object under the label does not take that
\* object's address.
C18_TerminateKeepsAddress ==
    [][ /\ TerminateStep => AddressesUnchanged
        /\ (QueryStep /\ located = "terminated" /\ Present(assigned_ip))
             => AddressesUnchanged ]_vars

\* the backend holds exactly one object, in phase "running", with an address
\* to give: a task with an attachment, or a container with an address on the
\* configured network or a default address
UsableBackend ==
    /\ Cardinality(backend) = 1
    /\ IF mode = "swarm"
       THEN /\ Cardinality(RunningDesired(Only(backend))) = 1
            /\ TaskPhase(Only(RunningDesired(Only(backend)))) = running
            /\ Len(Only(RunningDesired(Only(backend))).NetworksAttachments) > 0
       ELSE /\ Lower(Only(backend).status) = running
            /\ \/ docker_network \in DOMAIN Only(backend).Networks
               \/ Only(backend).IPAddress # EmptyStr

\* the lone service's lone running-desired task is running without attachment
RunningUnattached ==
    /\ mode = "swarm"
    /\ Cardinality(backend) = 1
    /\ Cardinality(RunningDesired(Only(backend))) = 1
    /\ TaskPhase(Only(RunningDesired(Only(backend)))) = running
    /\ Len(Only(RunningDesired(Only(backend))).NetworksAttachments) = 0

\* C19: every poll of a backend that holds one running object with a usable
\* address ends with assigned_ip and assigned_host present, so that a caller
\* who keeps polling such a backend gets them; a poll that sees a running
\* task without attachment assigns neither field.
C19_PollAssigns ==
    [][ (QueryStep /\ Undisturbed)
          => /\ UsableBackend => (Present(assigned_ip') /\ Present(assigned_host'))
             /\ RunningUnattached => AddressesUnchanged ]_vars

\* get_container_status called on the present proxy and backend with the
\* given iteration, the backend answering its reads in the given way: what
\* it returns or raises, the fields it leaves, and whether it logged
Poll(iteration, answer) ==
    LogPoll(IF mode = "swarm" THEN Swarm_get_container_status(Self, backend, answer)
                              ELSE Docker_get_container_status(Self, backend),
            iteration)

\* C20: on any proxy state and backend state, get_container_status called
\* with any two iteration values returns the same status or raises the same
\* error, and leaves the same assigned_ip, assigned_host and container_name;
\* only the logging may differ.
C20_IterationIsDiagnostic ==
    \A i, j \in Iterations, a \in TasksAnswers :
        /\ Poll(i, a).result.raised = Poll(j, a).result.raised
        /\ Poll(i, a).result.val = Poll(j, a).result.val
        /\ Poll(i, a).result.errType = Poll(j, a).result.errType
        /\ Poll(i, a).result.self = Poll(j, a).result.self

\* a logged poll has just assigned the address, and on the state it left a
\* quiet poll and a logged poll differ in logging
C20_Witness ==
    /\ ret.op = "query" /\ ret.logged
    /\ ret.val = running
    /\ Present(assigned_ip) /\ Present(assigned_host)
    /\ \E i, j \in Iterations : Poll(i, "tasks").logged /\ ~Poll(j, "tasks").logged

====
